---- MODULE Spec2Model ----
(***************************************************************************)
(* Cocktail catalogue REST API (cocktailsAPI): three mongoose collections  *)
(* and the fifteen handler operations of the three controllers.            *)
(*                                                                         *)
(* A request is handled by one action.  The handler is an operator that    *)
(* takes the request and the store and yields the response, the list of    *)
(* model calls it made and the store it leaves behind.  A store failure is *)
(* injected at the failAt-th model call of the handler (0: no failure).    *)
(***************************************************************************)
EXTENDS Integers, Sequences, FiniteSets, TLC

VARIABLES
  cocktails,            \* collection cocktails
  ingredients,          \* collection ingredients
  cocktailIngredients,  \* collection cocktail_ingredients
  nextId,               \* number of the next identifier the store assigns
  request,              \* the request being handled, or Idle
  response,             \* the response the handler returned
  calls,                \* the model calls the handler made, in order
  before,               \* the store as it was when the request arrived
  inflight,             \* the requests whose handlers are between two awaits
  cascadeFailed         \* ids whose entity was deleted by a destroy whose deleteMany failed

vars == <<cocktails, ingredients, cocktailIngredients, nextId, request, response, calls, before,
          inflight, cascadeFailed>>

(***************************************************************************)
(* Bounds                                                                  *)
(***************************************************************************)
\* number of documents the store ever assigns an identifier to
MaxIds == 3

\* requests that may be in flight at the same time
MaxInFlight == 2

\* documents the store may hold in the example scenario: two ingredients, one
\* cocktail, two rows
ScenarioMaxIds == 5

(***************************************************************************)
(* Identifiers: strings of characters, written as sequences of 1-character *)
(* strings.  ObjectId.isValid accepts a string exactly when it is 24 hex   *)
(* characters long.                                                        *)
(***************************************************************************)
ObjectIdHexLen == 24

HexChars ==
  {"0", "1", "2", "3", "4", "5", "6", "7", "8", "9",
   "a", "b", "c", "d", "e", "f", "A", "B", "C", "D", "E", "F"}

HexDigit == <<"1", "2", "3", "4", "5", "6", "7", "8", "9", "a", "b", "c", "d", "e", "f">>

\* the absent parameter or body field (undefined)
NoId == <<>>

isValid(id) ==
  /\ Len(id) = ObjectIdHexLen
  /\ \A i \in 1..Len(id) : id[i] \in HexChars

\* the n-th identifier the store assigns
ObjectId(n) == [i \in 1..ObjectIdHexLen |-> IF i < ObjectIdHexLen THEN "0" ELSE HexDigit[n]]

IdPool == {ObjectId(n) : n \in 1..MaxIds}

\* malformed identifiers: too short, and 24 characters with a non-hex one
ShortId == <<"a", "b", "c">>
NonHexId == [i \in 1..ObjectIdHexLen |-> IF i < ObjectIdHexLen THEN "0" ELSE "g"]

(***************************************************************************)
(* JavaScript values of body fields                                        *)
(***************************************************************************)
Undefined == [t |-> "undefined", v |-> ""]
Str(s) == [t |-> "string", v |-> s]
Bool(b) == [t |-> "boolean", v |-> IF b THEN "true" ELSE "false"]

Truthy(x) ==
  CASE x.t = "undefined" -> FALSE
    [] x.t = "string" -> x.v # ""
    [] x.t = "boolean" -> x.v = "true"

Null == [null |-> TRUE]

(***************************************************************************)
(* Collections: sequences of documents in insertion order                  *)
(***************************************************************************)
Range(s) == {s[i] : i \in 1..Len(s)}

Ids(coll) == {d._id : d \in Range(coll)}

\* the collection without the document findByIdAndDelete(id) finds
DeleteById(coll, id) == SelectSeq(coll, LAMBDA d : d._id # id)

FindById(coll, id) == SelectSeq(coll, LAMBDA d : d._id = id)

\* lexicographic order of the strings the model stores
StringOrder == <<"", "Cocktail", "Margarita", "Mix">>

StrRank(s) == CHOOSE i \in 1..Len(StringOrder) : StringOrder[i] = s

KeyOf(d, field) ==
  CASE field = "createdAt" -> d.createdAt
    [] field = "name" -> StrRank(d.name)
    [] field = "category" -> StrRank(d.category)
    [] OTHER -> 0

RECURSIVE Insert(_, _, _)
Insert(d, sorted, field) ==
  IF sorted = <<>> THEN <<d>>
  ELSE IF KeyOf(d, field) < KeyOf(Head(sorted), field)
       THEN <<d>> \o sorted
       ELSE <<Head(sorted)>> \o Insert(d, Tail(sorted), field)

\* ascending, stable
RECURSIVE SortBy(_, _)
SortBy(coll, field) ==
  IF coll = <<>> THEN <<>>
  ELSE Insert(coll[Len(coll)], SortBy(SubSeq(coll, 1, Len(coll) - 1), field), field)

(***************************************************************************)
(* Outcome of a handler                                                    *)
(***************************************************************************)
StoreFailure == "store failure"

Store == [cocktails |-> cocktails, ingredients |-> ingredients,
          cocktailIngredients |-> cocktailIngredients, nextId |-> nextId]

Outcome(status, body, log, st) == [status |-> status, body |-> body, calls |-> log, store |-> st]

badRequest(msg, log, st) == Outcome(400, [message |-> msg], log, st)
notFound(msg, log, st) == Outcome(404, [message |-> msg], log, st)
ok(body, log, st) == Outcome(200, body, log, st)
created(body, log, st) == Outcome(201, body, log, st)
\* the exception leaves the handler: the handler sends no response of its own
rethrow(msg, err, log, st) == Outcome(0, [message |-> err], log, st)

\* the catch block of every handler
internalServerError(msg, err, log, st) == Outcome(500, [message |-> msg, error |-> err], log, st)

(***************************************************************************)
(* CocktailsController                                                     *)
(***************************************************************************)
\* a mongo query on _id: every document, those in ids, or those not in ids
AllDocs == [op |-> "all", ids |-> {}]
In(ids) == [op |-> "$in", ids |-> ids]
Nin(ids) == [op |-> "$nin", ids |-> ids]

Matches(query, d) ==
  CASE query.op = "all" -> TRUE
    [] query.op = "$in" -> d._id \in query.ids
    [] query.op = "$nin" -> d._id \notin query.ids

\* CocktailIngredient.find({ ingredientId: ingredient }).distinct('cocktailId')
CocktailIdsOfIngredient(st, ingredient) ==
  {r.cocktailId : r \in {x \in Range(st.cocktailIngredients) : x.ingredientId = ingredient}}

\* Ingredient.find({ isAlcoholic: true }).distinct('_id')
AlcoholicIngredientIds(st) ==
  {i._id : i \in {x \in Range(st.ingredients) : x.isAlcoholic}}

\* CocktailIngredient.find({ ingredientId: { $in: ids } }).distinct('cocktailId')
CocktailIdsOfIngredients(st, ids) ==
  {r.cocktailId : r \in {x \in Range(st.cocktailIngredients) : x.ingredientId \in ids}}

\* an ingredient filter that selects no cocktail
IngredientFilterNone(st, ingredient) == In({})

\* query._id after the ingredient filter
IngredientFilter(st, ingredient) == In(CocktailIdsOfIngredient(st, ingredient))

\* the isAlcoholic filter with its two branches exchanged
AlcoholFilterSwapped(query, isAlcoholic, cocktailIds) ==
  IF isAlcoholic = "true" THEN Nin(cocktailIds) ELSE In(cocktailIds)

\* query._id after the isAlcoholic filter: the assignment replaces the earlier one
AlcoholFilter(query, isAlcoholic, cocktailIds) ==
  IF isAlcoholic = "true" THEN In(cocktailIds) ELSE Nin(cocktailIds)

\* the object literal sortOptions, and the properties it inherits from Object.prototype
sortOptions == [name |-> "name", category |-> "category", date |-> "createdAt"]

ObjectPrototypeKeys ==
  {"constructor", "toString", "valueOf", "hasOwnProperty", "isPrototypeOf",
   "propertyIsEnumerable", "toLocaleString", "__proto__"}

\* sortOptions[sort]: an own property is its field name, an inherited one a function
\* (truthy; as a computed key it is the function's source text), anything else undefined
SortOption(sort) ==
  IF sort \in DOMAIN sortOptions THEN [truthy |-> TRUE, field |-> sortOptions[sort]]
  ELSE IF sort \in ObjectPrototypeKeys THEN [truthy |-> TRUE, field |-> "function"]
  ELSE [truthy |-> FALSE, field |-> ""]

\* the list answered without the test for an empty result
CocktailsListAlways200(result, log, st) == ok(result, log, st)

\* cocktails.length === 0 is answered 404
CocktailsListOutcome(result, log, st) ==
  IF Len(result) = 0
  THEN notFound("No cocktails found matching the filters", log, st)
  ELSE ok(result, log, st)

\* from the sort check to the response, with the query built by the filters
CocktailsIndexRun(query, sort, log, failAt, st) ==
  IF sort # "" /\ ~SortOption(sort).truthy
  THEN badRequest("Invalid sort parameter. Valid options are: name, category, date", log, st)
  ELSE LET log4 == Append(log, "Cocktail.find")
           matched == SelectSeq(st.cocktails, LAMBDA d : Matches(query, d))
           result == IF sort # "" THEN SortBy(matched, SortOption(sort).field) ELSE matched
       IN IF failAt = Len(log4)
          THEN internalServerError("Error fetching cocktails", StoreFailure, log4, st)
          ELSE CocktailsListOutcome(result, log4, st)

CocktailsIndex(qs, failAt, st) ==
  IF qs.ingredient # NoId /\ ~isValid(qs.ingredient)
  THEN badRequest("Invalid ingredient ID format", <<>>, st)
  ELSE LET log1 == IF qs.ingredient # NoId THEN <<"CocktailIngredient.find">> ELSE <<>>
           q1 == IF qs.ingredient # NoId THEN IngredientFilter(st, qs.ingredient) ELSE AllDocs
           log2 == Append(log1, "Ingredient.find")
           log3 == Append(log2, "CocktailIngredient.find")
           cocktailIds == CocktailIdsOfIngredients(st, AlcoholicIngredientIds(st))
       IN IF qs.ingredient # NoId /\ failAt = Len(log1)
          THEN internalServerError("Error fetching cocktails", StoreFailure, log1, st)
          ELSE IF qs.isAlcoholic = ""
          THEN CocktailsIndexRun(q1, qs.sort, log1, failAt, st)
          ELSE IF failAt = Len(log2)
          THEN internalServerError("Error fetching cocktails", StoreFailure, log2, st)
          ELSE IF failAt = Len(log3)
          THEN internalServerError("Error fetching cocktails", StoreFailure, log3, st)
          ELSE CocktailsIndexRun(AlcoholFilter(q1, qs.isAlcoholic, cocktailIds),
                                 qs.sort, log3, failAt, st)

\* request.only(keys): the submitted fields among keys, nothing else
Only(body, keys) == [k \in keys |-> body[k]]

CocktailFields == {"name", "category", "instructions"}

\* a validation that forgets the last field
MissingCocktailFieldsButLast(data) == ~Truthy(data.name) \/ ~Truthy(data.category)

\* !data.name || !data.category || !data.instructions
MissingCocktailFields(data) ==
  ~Truthy(data.name) \/ ~Truthy(data.category) \/ ~Truthy(data.instructions)

CocktailsStore(body, failAt, st) ==
  LET data == Only(body, CocktailFields)
  IN IF MissingCocktailFields(data)
     THEN badRequest("Missing required fields: name, category, instructions", <<>>, st)
     ELSE LET log == <<"Cocktail.create">>
              cocktail == [_id |-> ObjectId(st.nextId), name |-> data.name.v,
                           category |-> data.category.v, instructions |-> data.instructions.v,
                           createdAt |-> st.nextId]
          IN IF failAt = 1
             THEN internalServerError("Error creating cocktail", StoreFailure, log, st)
             ELSE created(cocktail, log,
                          [st EXCEPT !.cocktails = Append(@, cocktail), !.nextId = @ + 1])

\* show without the test of the identifier's format
CocktailsShowUnchecked(id, failAt, st) ==
  LET log == <<"Cocktail.findById">>
      found == FindById(st.cocktails, id)
  IN IF failAt = 1
     THEN internalServerError("Error fetching cocktail", StoreFailure, log, st)
     ELSE IF found = <<>> THEN notFound("Cocktail not found", log, st)
     ELSE ok(found[1], log, st)

CocktailsShow(id, failAt, st) ==
  IF ~isValid(id) THEN badRequest("Invalid ID format", <<>>, st)
  ELSE LET log == <<"Cocktail.findById">>
           found == FindById(st.cocktails, id)
       IN IF failAt = 1
          THEN internalServerError("Error fetching cocktail", StoreFailure, log, st)
          ELSE IF found = <<>> THEN notFound("Cocktail not found", log, st)
          ELSE ok(found[1], log, st)

\* an update that writes every field, the absent ones as empty
UpdatedAlways(old, x) == x.v

\* a field of the update document replaces the stored one; an absent field keeps it
Updated(old, x) == IF x.t = "undefined" THEN old ELSE x.v

CocktailsUpdate(id, body, failAt, st) ==
  IF ~isValid(id) THEN badRequest("Invalid ID format", <<>>, st)
  ELSE LET log == <<"Cocktail.findByIdAndUpdate">>
           found == FindById(st.cocktails, id)
           data == Only(body, CocktailFields)
           upd(d) == [d EXCEPT !.name = Updated(@, data.name),
                               !.category = Updated(@, data.category),
                               !.instructions = Updated(@, data.instructions)]
       IN IF failAt = 1
          THEN internalServerError("Error updating cocktail", StoreFailure, log, st)
          ELSE IF found = <<>> THEN notFound("Cocktail not found", log, st)
          ELSE ok(upd(found[1]), log,
                  [st EXCEPT !.cocktails =
                     [i \in 1..Len(@) |-> IF @[i]._id = id THEN upd(@[i]) ELSE @[i]]])

\* a catch block that puts back what the handler had deleted
StoreRolledBack(reached, atStart) == atStart

\* the catch block only answers: the store stays as the calls before the failing one left it
StoreAtCatch(reached, atStart) == reached

\* a delete that leaves the rows of the cocktail in place
DeleteManyByCocktailNone(rows, id) == rows

\* CocktailIngredient.deleteMany({ cocktailId: cocktail._id })
DeleteManyByCocktail(rows, id) == SelectSeq(rows, LAMBDA r : r.cocktailId # id)

\* a destroy that deletes the rows before it knows that the cocktail exists
CocktailsDestroyCascadeFirst(id, failAt, st) ==
  IF ~isValid(id) THEN badRequest("Invalid ID format", <<>>, st)
  ELSE LET log1 == <<"CocktailIngredient.deleteMany">>
           log2 == Append(log1, "Cocktail.findByIdAndDelete")
           found == FindById(st.cocktails, id)
           st1 == [st EXCEPT !.cocktailIngredients = DeleteManyByCocktail(@, id)]
           st2 == [st1 EXCEPT !.cocktails = DeleteById(@, id)]
       IN IF failAt = 1
          THEN internalServerError("Error deleting cocktail", StoreFailure, log1, st)
          ELSE IF failAt = 2
          THEN internalServerError("Error deleting cocktail", StoreFailure, log2, st1)
          ELSE IF found = <<>> THEN notFound("Cocktail not found", log2, st1)
          ELSE ok([message |-> "Cocktail and its ingredients were deleted successfully"],
                  log2, st2)

CocktailsDestroy(id, failAt, st) ==
  IF ~isValid(id) THEN badRequest("Invalid ID format", <<>>, st)
  ELSE LET log1 == <<"Cocktail.findByIdAndDelete">>
           log2 == Append(log1, "CocktailIngredient.deleteMany")
           found == FindById(st.cocktails, id)
           st1 == [st EXCEPT !.cocktails = DeleteById(@, id)]
           st2 == [st1 EXCEPT !.cocktailIngredients = DeleteManyByCocktail(@, found[1]._id)]
       IN IF failAt = 1
          THEN internalServerError("Error deleting cocktail", StoreFailure, log1, st)
          ELSE IF found = <<>> THEN notFound("Cocktail not found", log1, st)
          ELSE IF failAt = 2
          THEN internalServerError("Error deleting cocktail", StoreFailure, log2, StoreAtCatch(st1, st))
          ELSE ok([message |-> "Cocktail and its ingredients were deleted successfully"],
                  log2, st2)

(***************************************************************************)
(* IngredientsController                                                   *)
(***************************************************************************)
\* a list that answers 404 for an empty collection, as the cocktail list does
IngredientsIndexNotFoundOnEmpty(failAt, st) ==
  LET log == <<"Ingredient.find">>
  IN IF failAt = 1
     THEN internalServerError("Error fetching ingredients", StoreFailure, log, st)
     ELSE IF Len(st.ingredients) = 0 THEN notFound("No ingredients found", log, st)
     ELSE ok(st.ingredients, log, st)

IngredientsIndex(failAt, st) ==
  LET log == <<"Ingredient.find">>
  IN IF failAt = 1
     THEN internalServerError("Error fetching ingredients", StoreFailure, log, st)
     ELSE ok(st.ingredients, log, st)

IngredientFields == {"name", "description", "isAlcoholic", "image"}

\* a validation that tests isAlcoholic for truthiness, like the other fields
MissingIngredientFieldsByTruthiness(data) ==
  ~Truthy(data.name) \/ ~Truthy(data.description)
    \/ ~Truthy(data.isAlcoholic) \/ ~Truthy(data.image)

\* !data.name || !data.description || typeof data.isAlcoholic !== 'boolean' || !data.image
MissingIngredientFields(data) ==
  ~Truthy(data.name) \/ ~Truthy(data.description)
    \/ data.isAlcoholic.t # "boolean" \/ ~Truthy(data.image)

IngredientsStore(body, failAt, st) ==
  LET data == Only(body, IngredientFields)
  IN IF MissingIngredientFields(data)
     THEN badRequest("Missing required fields: name, description, isAlcoholic, image", <<>>, st)
     ELSE LET log == <<"Ingredient.create">>
              ingredient == [_id |-> ObjectId(st.nextId), name |-> data.name.v,
                             description |-> data.description.v,
                             isAlcoholic |-> (data.isAlcoholic.v = "true"),
                             image |-> data.image.v, createdAt |-> st.nextId]
          IN IF failAt = 1
             THEN internalServerError("Error creating ingredient", StoreFailure, log, st)
             ELSE created(ingredient, log,
                          [st EXCEPT !.ingredients = Append(@, ingredient), !.nextId = @ + 1])

IngredientsShow(id, failAt, st) ==
  IF ~isValid(id) THEN badRequest("Invalid ID format", <<>>, st)
  ELSE LET log == <<"Ingredient.findById">>
           found == FindById(st.ingredients, id)
       IN IF failAt = 1
          THEN internalServerError("Error fetching ingredient", StoreFailure, log, st)
          ELSE IF found = <<>> THEN notFound("Ingredient not found", log, st)
          ELSE ok(found[1], log, st)

\* the schema's Boolean cast of an update value
CastsToBoolean(x) == x.t = "boolean" \/ (x.t = "string" /\ x.v \in {"true", "false"})

IngredientsUpdate(id, body, failAt, st) ==
  IF ~isValid(id) THEN badRequest("Invalid ID format", <<>>, st)
  ELSE LET log == <<"Ingredient.findByIdAndUpdate">>
           found == FindById(st.ingredients, id)
           upd(d) == [d EXCEPT !.name = Updated(@, body.name),
                               !.description = Updated(@, body.description),
                               !.isAlcoholic = IF body.isAlcoholic.t = "undefined" THEN @
                                               ELSE body.isAlcoholic.v = "true",
                               !.image = Updated(@, body.image)]
       IN IF failAt = 1
          THEN internalServerError("Error updating ingredient", StoreFailure, log, st)
          ELSE IF body.isAlcoholic.t # "undefined" /\ ~CastsToBoolean(body.isAlcoholic)
          THEN internalServerError("Error updating ingredient",
                                   "Cast to Boolean failed", log, st)
          ELSE IF found = <<>> THEN notFound("Ingredient not found", log, st)
          ELSE ok(upd(found[1]), log,
                  [st EXCEPT !.ingredients =
                     [i \in 1..Len(@) |-> IF @[i]._id = id THEN upd(@[i]) ELSE @[i]]])

\* CocktailIngredient.deleteMany({ ingredientId: ingredient._id })
DeleteManyByIngredientAll(rows, id) == <<>>

DeleteManyByIngredient(rows, id) == SelectSeq(rows, LAMBDA r : r.ingredientId # id)

\* a destroy that deletes the rows before it knows that the ingredient exists
IngredientsDestroyCascadeFirst(id, failAt, st) ==
  IF ~isValid(id) THEN badRequest("Invalid ID format", <<>>, st)
  ELSE LET log1 == <<"CocktailIngredient.deleteMany">>
           log2 == Append(log1, "Ingredient.findByIdAndDelete")
           found == FindById(st.ingredients, id)
           st1 == [st EXCEPT !.cocktailIngredients = DeleteManyByIngredient(@, id)]
           st2 == [st1 EXCEPT !.ingredients = DeleteById(@, id)]
       IN IF failAt = 1
          THEN internalServerError("Error deleting ingredient", StoreFailure, log1, st)
          ELSE IF failAt = 2
          THEN internalServerError("Error deleting ingredient", StoreFailure, log2, st1)
          ELSE IF found = <<>> THEN notFound("Ingredient not found", log2, st1)
          ELSE ok([message |-> "Ingredient deleted successfully"], log2, st2)

IngredientsDestroy(id, failAt, st) ==
  IF ~isValid(id) THEN badRequest("Invalid ID format", <<>>, st)
  ELSE LET log1 == <<"Ingredient.findByIdAndDelete">>
           log2 == Append(log1, "CocktailIngredient.deleteMany")
           found == FindById(st.ingredients, id)
           st1 == [st EXCEPT !.ingredients = DeleteById(@, id)]
           st2 == [st1 EXCEPT !.cocktailIngredients = DeleteManyByIngredient(@, found[1]._id)]
       IN IF failAt = 1
          THEN internalServerError("Error deleting ingredient", StoreFailure, log1, st)
          ELSE IF found = <<>> THEN notFound("Ingredient not found", log1, st)
          ELSE IF failAt = 2
          THEN internalServerError("Error deleting ingredient", StoreFailure, log2, StoreAtCatch(st1, st))
          ELSE ok([message |-> "Ingredient deleted successfully"], log2, st2)

(***************************************************************************)
(* CocktailIngredientsController                                           *)
(***************************************************************************)
\* populate('cocktailId ingredientId'): each reference is replaced by the
\* document it names, or by null when there is none
Populate(row, st) ==
  LET c == FindById(st.cocktails, row.cocktailId)
      i == FindById(st.ingredients, row.ingredientId)
  IN [row EXCEPT !.cocktailId = IF c = <<>> THEN Null ELSE c[1],
                 !.ingredientId = IF i = <<>> THEN Null ELSE i[1]]

\* query._id = { $in: await CocktailIngredient.find({ cocktailId }) }:
\* the documents found are cast to their _id
RowsOfCocktail(st, cocktailId) ==
  In({r._id : r \in {x \in Range(st.cocktailIngredients) : x.cocktailId = cocktailId}})

RowsOfIngredient(st, ingredientId) ==
  In({r._id : r \in {x \in Range(st.cocktailIngredients) : x.ingredientId = ingredientId}})

CocktailIngredientsListOutcome(result, log, st) ==
  IF Len(result) = 0
  THEN notFound("No cocktail ingredients found matching the filters", log, st)
  ELSE ok(result, log, st)

\* find(query).populate(...): the find, then one query per populated path
\* when there is a document to populate
CocktailIngredientsIndexRun(query, log, failAt, st) ==
  LET log3 == Append(log, "CocktailIngredient.find")
      log4 == Append(log3, "Cocktail.find")
      log5 == Append(log4, "Ingredient.find")
      matched == SelectSeq(st.cocktailIngredients, LAMBDA d : Matches(query, d))
      result == [i \in 1..Len(matched) |-> Populate(matched[i], st)]
      err(l) == internalServerError("Error fetching cocktail ingredients", StoreFailure, l, st)
  IN IF failAt = Len(log3) THEN err(log3)
     ELSE IF Len(matched) = 0 THEN CocktailIngredientsListOutcome(matched, log3, st)
     ELSE IF failAt = Len(log4) THEN err(log4)
     ELSE IF failAt = Len(log5) THEN err(log5)
     ELSE CocktailIngredientsListOutcome(result, log5, st)

\* a second filter that narrows the first instead of replacing it
AssignIdNarrowing(query, value) ==
  IF query.op = "$in" THEN In(query.ids \cap value.ids) ELSE value

\* query._id = value: whatever an earlier filter put in query._id is replaced
AssignId(query, value) == value

CocktailIngredientsIndex(qs, failAt, st) ==
  LET log1 == IF qs.cocktailId # NoId THEN <<"CocktailIngredient.find">> ELSE <<>>
      q1 == IF qs.cocktailId # NoId THEN RowsOfCocktail(st, qs.cocktailId) ELSE AllDocs
      log2 == IF qs.ingredientId # NoId THEN Append(log1, "CocktailIngredient.find") ELSE log1
      q2 == IF qs.ingredientId # NoId
            THEN AssignId(q1, RowsOfIngredient(st, qs.ingredientId)) ELSE q1
      err(l) == internalServerError("Error fetching cocktail ingredients", StoreFailure, l, st)
  IN IF qs.cocktailId # NoId /\ ~isValid(qs.cocktailId)
     THEN badRequest("Invalid cocktail ID format", <<>>, st)
     ELSE IF qs.cocktailId # NoId /\ failAt = Len(log1) THEN err(log1)
     ELSE IF qs.ingredientId # NoId /\ ~isValid(qs.ingredientId)
     THEN badRequest("Invalid ingredient ID format", log1, st)
     ELSE IF qs.ingredientId # NoId /\ failAt = Len(log2) THEN err(log2)
     ELSE CocktailIngredientsIndexRun(q2, log2, failAt, st)

\* an existence test that always succeeds
ExistsAlways(coll, id) == TRUE

\* findById(...) found a document
Exists(coll, id) == FindById(coll, id) # <<>>

\* the document CocktailIngredient.create(data) inserts
NewCocktailIngredient(data, st) ==
  [_id |-> ObjectId(st.nextId), cocktailId |-> data.cocktailId,
   ingredientId |-> data.ingredientId, quantity |-> data.quantity.v, createdAt |-> st.nextId]

CocktailIngredientsStore(body, failAt, st) ==
  IF body.cocktailId = NoId \/ body.ingredientId = NoId \/ ~Truthy(body.quantity)
  THEN badRequest("Missing required fields: cocktailId, ingredientId, quantity", <<>>, st)
  ELSE IF ~isValid(body.cocktailId)
  THEN badRequest("Invalid cocktail ID format", <<>>, st)
  ELSE IF ~isValid(body.ingredientId)
  THEN badRequest("Invalid ingredient ID format", <<>>, st)
  ELSE LET log1 == <<"Cocktail.findById">>
           log2 == Append(log1, "Ingredient.findById")
           log3 == Append(log2, "CocktailIngredient.create")
           cocktailExists == Exists(st.cocktails, body.cocktailId)
           ingredientExists == Exists(st.ingredients, body.ingredientId)
           cocktailIngredient == NewCocktailIngredient(body, st)
           err(l) == Outcome(500, [message |-> "Error creating cocktail ingredient"], l, st)
       IN IF failAt = 1 THEN err(log1)
          ELSE IF ~cocktailExists THEN notFound("Cocktail not found in database", log1, st)
          ELSE IF failAt = 2 THEN err(log2)
          ELSE IF ~ingredientExists THEN notFound("Ingredient not found in database", log2, st)
          ELSE IF failAt = 3 THEN err(log3)
          ELSE created(cocktailIngredient, log3,
                       [st EXCEPT !.cocktailIngredients = Append(@, cocktailIngredient),
                                  !.nextId = @ + 1])

CocktailIngredientsShow(id, failAt, st) ==
  IF ~isValid(id) THEN badRequest("Invalid ID format", <<>>, st)
  ELSE LET log1 == <<"CocktailIngredient.findById">>
           log2 == Append(log1, "Cocktail.find")
           log3 == Append(log2, "Ingredient.find")
           found == FindById(st.cocktailIngredients, id)
           err(l) == internalServerError("Error fetching cocktail ingredient", StoreFailure, l, st)
       IN IF failAt = 1 THEN err(log1)
          ELSE IF found = <<>> THEN notFound("Cocktail ingredient not found", log1, st)
          ELSE IF failAt = 2 THEN err(log2)
          ELSE IF failAt = 3 THEN err(log3)
          ELSE ok(Populate(found[1], st), log3, st)

\* the schema's ObjectId cast of an update value
CastsToObjectId(id) == isValid(id)

CocktailIngredientsUpdate(id, body, failAt, st) ==
  IF ~isValid(id) THEN badRequest("Invalid ID format", <<>>, st)
  ELSE LET log == <<"CocktailIngredient.findByIdAndUpdate">>
           found == FindById(st.cocktailIngredients, id)
           upd(d) == [d EXCEPT !.cocktailId = IF body.cocktailId = NoId THEN @
                                              ELSE body.cocktailId,
                               !.ingredientId = IF body.ingredientId = NoId THEN @
                                                ELSE body.ingredientId,
                               !.quantity = Updated(@, body.quantity)]
           err(msg) == internalServerError("Error updating cocktail ingredient", msg, log, st)
       IN IF failAt = 1 THEN err(StoreFailure)
          ELSE IF \/ (body.cocktailId # NoId /\ ~CastsToObjectId(body.cocktailId))
                  \/ (body.ingredientId # NoId /\ ~CastsToObjectId(body.ingredientId))
          THEN err("Cast to ObjectId failed")
          ELSE IF found = <<>> THEN notFound("Cocktail ingredient not found", log, st)
          ELSE ok(upd(found[1]), log,
                  [st EXCEPT !.cocktailIngredients =
                     [i \in 1..Len(@) |-> IF @[i]._id = id THEN upd(@[i]) ELSE @[i]]])

CocktailIngredientsDestroy(id, failAt, st) ==
  IF ~isValid(id) THEN badRequest("Invalid ID format", <<>>, st)
  ELSE LET log == <<"CocktailIngredient.findByIdAndDelete">>
           found == FindById(st.cocktailIngredients, id)
       IN IF failAt = 1
          THEN internalServerError("Error deleting cocktail ingredient", StoreFailure, log, st)
          ELSE IF found = <<>> THEN notFound("Cocktail ingredient not found", log, st)
          ELSE ok([message |-> "Cocktail ingredient deleted successfully"], log,
                  [st EXCEPT !.cocktailIngredients = DeleteById(@, id)])

(***************************************************************************)
(* Requests                                                                *)
(***************************************************************************)
None == <<>>

\* a failure is injected at one of the n model calls a handler can make, or at none
FailPoints(n) == 0..n

\* identifiers in the path, and in the query string or body (where they can be absent)
PathIds == IdPool \cup {ShortId, NonHexId}
FilterIds == {NoId} \cup IdPool \cup {NonHexId}

IsAlcoholicInputs == {"", "true", "false"}
SortInputs == {"", "name", "category", "date", "invalid", "constructor"}

CocktailBodies ==
  [name : {Undefined, Str(""), Str("Margarita")},
   category : {Undefined, Str("Cocktail")},
   instructions : {Undefined, Str("Mix")},
   garnish : {Undefined, Str("Salt")}]

IngredientBodies ==
  [name : {Undefined, Str("Lime")},
   description : {Undefined, Str("A sour fruit")},
   isAlcoholic : {Undefined, Bool(TRUE), Bool(FALSE), Str("true")},
   image : {Undefined, Str("lime.jpg")}]

CocktailIngredientBodies ==
  [cocktailId : FilterIds, ingredientId : FilterIds, quantity : {Undefined, Str("1 oz")}]

\* no request is being handled
\* the requests the event loop may hold, and a slot that holds none
Slots == 1..MaxInFlight

Free == [op |-> "none", id |-> NoId, body |-> None, pc |-> "free", status |-> 0]

Idle == [op |-> "none", id |-> NoId, qs |-> None, body |-> None, failAt |-> 0]

\* the handler ran on the store as it is and produced outcome; failAt is recorded
\* as 0 when the handler made fewer than failAt model calls

\* one request dispatched to its handler, in a store that assigns at most maxIds ids
HandleWithin(maxIds, op, id, qs, body, failAt, outcome) ==
  \E out \in {outcome} :
  /\ out.store.nextId <= maxIds + 1
  /\ request' = [op |-> op, id |-> id, qs |-> qs, body |-> body,
                 failAt |-> IF failAt <= Len(out.calls) THEN failAt ELSE 0]
  /\ response' = [status |-> out.status, body |-> out.body]
  /\ calls' = out.calls
  /\ before' = Store
  /\ cocktails' = out.store.cocktails
  /\ ingredients' = out.store.ingredients
  /\ cocktailIngredients' = out.store.cocktailIngredients
  /\ nextId' = out.store.nextId
  /\ UNCHANGED <<inflight, cascadeFailed>>

Handle(op, id, qs, body, failAt, outcome) ==
  HandleWithin(MaxIds, op, id, qs, body, failAt, outcome)

GetCocktails ==
  /\ request = Idle
  /\ \E ingredient \in FilterIds, isAlcoholic \in IsAlcoholicInputs, sort \in SortInputs,
     failAt \in FailPoints(4) :
    LET qs == [ingredient |-> ingredient, isAlcoholic |-> isAlcoholic, sort |-> sort]
    IN Handle("GET /cocktails", NoId, qs, None, failAt, CocktailsIndex(qs, failAt, Store))

PostCocktails ==
  /\ request = Idle
  /\ \E body \in CocktailBodies, failAt \in FailPoints(1) :
    Handle("POST /cocktails", NoId, None, body, failAt, CocktailsStore(body, failAt, Store))

GetCocktail ==
  /\ request = Idle
  /\ \E id \in PathIds, failAt \in FailPoints(1) :
    Handle("GET /cocktails/:id", id, None, None, failAt, CocktailsShow(id, failAt, Store))

PutCocktail ==
  /\ request = Idle
  /\ \E id \in PathIds, body \in CocktailBodies, failAt \in FailPoints(1) :
    Handle("PUT /cocktails/:id", id, None, body, failAt,
           CocktailsUpdate(id, body, failAt, Store))

DeleteCocktail ==
  /\ request = Idle
  /\ \E id \in PathIds, failAt \in FailPoints(2) :
    Handle("DELETE /cocktails/:id", id, None, None, failAt,
           CocktailsDestroy(id, failAt, Store))

GetIngredients ==
  /\ request = Idle
  /\ \E failAt \in FailPoints(1) :
    Handle("GET /ingredients", NoId, None, None, failAt, IngredientsIndex(failAt, Store))

PostIngredients ==
  /\ request = Idle
  /\ \E body \in IngredientBodies, failAt \in FailPoints(1) :
    Handle("POST /ingredients", NoId, None, body, failAt,
           IngredientsStore(body, failAt, Store))

GetIngredient ==
  /\ request = Idle
  /\ \E id \in PathIds, failAt \in FailPoints(1) :
    Handle("GET /ingredients/:id", id, None, None, failAt,
           IngredientsShow(id, failAt, Store))

PutIngredient ==
  /\ request = Idle
  /\ \E id \in PathIds, body \in IngredientBodies, failAt \in FailPoints(1) :
    Handle("PUT /ingredients/:id", id, None, body, failAt,
           IngredientsUpdate(id, body, failAt, Store))

DeleteIngredient ==
  /\ request = Idle
  /\ \E id \in PathIds, failAt \in FailPoints(2) :
    Handle("DELETE /ingredients/:id", id, None, None, failAt,
           IngredientsDestroy(id, failAt, Store))

GetCocktailIngredients ==
  /\ request = Idle
  /\ \E cocktailId \in FilterIds, ingredientId \in FilterIds, failAt \in FailPoints(5) :
    LET qs == [cocktailId |-> cocktailId, ingredientId |-> ingredientId]
    IN Handle("GET /cocktail-ingredients", NoId, qs, None, failAt,
              CocktailIngredientsIndex(qs, failAt, Store))

PostCocktailIngredients ==
  /\ request = Idle
  /\ \E body \in CocktailIngredientBodies, failAt \in FailPoints(3) :
    Handle("POST /cocktail-ingredients", NoId, None, body, failAt,
           CocktailIngredientsStore(body, failAt, Store))

GetCocktailIngredient ==
  /\ request = Idle
  /\ \E id \in PathIds, failAt \in FailPoints(3) :
    Handle("GET /cocktail-ingredients/:id", id, None, None, failAt,
           CocktailIngredientsShow(id, failAt, Store))

PutCocktailIngredient ==
  /\ request = Idle
  /\ \E id \in PathIds, body \in CocktailIngredientBodies, failAt \in FailPoints(1) :
    Handle("PUT /cocktail-ingredients/:id", id, None, body, failAt,
           CocktailIngredientsUpdate(id, body, failAt, Store))

DeleteCocktailIngredient ==
  /\ request = Idle
  /\ \E id \in PathIds, failAt \in FailPoints(1) :
    Handle("DELETE /cocktail-ingredients/:id", id, None, None, failAt,
           CocktailIngredientsDestroy(id, failAt, Store))

\* the response has been sent: the request is over and the next one is dispatched
Reply ==
  /\ request # Idle
  /\ request' = Idle
  /\ response' = [status |-> 0, body |-> None]
  /\ calls' = <<>>
  /\ before' = Store
  /\ UNCHANGED <<cocktails, ingredients, cocktailIngredients, nextId, inflight, cascadeFailed>>

(***************************************************************************)
(* Specification: an empty store, then requests one at a time              *)
(***************************************************************************)
Init ==
  /\ cocktails = <<>>
  /\ ingredients = <<>>
  /\ cocktailIngredients = <<>>
  /\ nextId = 1
  /\ request = Idle
  /\ response = [status |-> 0, body |-> None]
  /\ calls = <<>>
  /\ before = Store
  /\ inflight = [p \in Slots |-> Free]
  /\ cascadeFailed = {}

Next ==
  \/ GetCocktails
  \/ PostCocktails
  \/ GetCocktail
  \/ PutCocktail
  \/ DeleteCocktail
  \/ GetIngredients
  \/ PostIngredients
  \/ GetIngredient
  \/ PutIngredient
  \/ DeleteIngredient
  \/ GetCocktailIngredients
  \/ PostCocktailIngredients
  \/ GetCocktailIngredient
  \/ PutCocktailIngredient
  \/ DeleteCocktailIngredient
  \/ Reply

Spec == Init /\ [][Next]_vars

\* sequential use in which no store call fails
NoStoreFailure == request'.failAt = 0

NextNoFail ==
  \/ GetCocktails /\ NoStoreFailure
  \/ PostCocktails /\ NoStoreFailure
  \/ GetCocktail /\ NoStoreFailure
  \/ PutCocktail /\ NoStoreFailure
  \/ DeleteCocktail /\ NoStoreFailure
  \/ GetIngredients /\ NoStoreFailure
  \/ PostIngredients /\ NoStoreFailure
  \/ GetIngredient /\ NoStoreFailure
  \/ PutIngredient /\ NoStoreFailure
  \/ DeleteIngredient /\ NoStoreFailure
  \/ GetCocktailIngredients /\ NoStoreFailure
  \/ PostCocktailIngredients /\ NoStoreFailure
  \/ GetCocktailIngredient /\ NoStoreFailure
  \/ PutCocktailIngredient /\ NoStoreFailure
  \/ DeleteCocktailIngredient /\ NoStoreFailure
  \/ Reply

SpecNoFail == Init /\ [][NextNoFail]_vars

(***************************************************************************)
(* The example scenario: Lime and Tequila, the Margarita, the two rows that *)
(* link them, and the two filtered lists. Requests come in any order, each  *)
(* ingredient with or without description and image, and no store call      *)
(* fails.                                                                   *)
(***************************************************************************)
ScenarioIds == {ObjectId(n) : n \in 1..ScenarioMaxIds}

ScenarioIngredientBodies ==
  {[name |-> Str(n), isAlcoholic |-> Bool(n = "Tequila"),
    description |-> IF full THEN Str("An ingredient") ELSE Undefined,
    image |-> IF full THEN Str("image.jpg") ELSE Undefined] :
     n \in {"Lime", "Tequila"}, full \in BOOLEAN}

ScenarioCocktailBody ==
  [name |-> Str("Margarita"), category |-> Str("Cocktail"), instructions |-> Str("Mix"),
   garnish |-> Undefined]

ScenarioRowBodies ==
  [cocktailId : ScenarioIds, ingredientId : ScenarioIds, quantity : {Str("1 oz"), Str("2 oz")}]

ScenarioQueries ==
  {[ingredient |-> NoId, isAlcoholic |-> "true", sort |-> ""]}
    \cup {[ingredient |-> id, isAlcoholic |-> "", sort |-> ""] : id \in ScenarioIds}

ScenarioPostIngredients ==
  /\ request = Idle
  /\ \E body \in ScenarioIngredientBodies :
       HandleWithin(ScenarioMaxIds, "POST /ingredients", NoId, None, body, 0,
                    IngredientsStore(body, 0, Store))

ScenarioPostCocktails ==
  /\ request = Idle
  /\ HandleWithin(ScenarioMaxIds, "POST /cocktails", NoId, None, ScenarioCocktailBody, 0,
                  CocktailsStore(ScenarioCocktailBody, 0, Store))

ScenarioPostCocktailIngredients ==
  /\ request = Idle
  /\ \E body \in ScenarioRowBodies :
       HandleWithin(ScenarioMaxIds, "POST /cocktail-ingredients", NoId, None, body, 0,
                    CocktailIngredientsStore(body, 0, Store))

ScenarioGetCocktails ==
  /\ request = Idle
  /\ \E qs \in ScenarioQueries :
       HandleWithin(ScenarioMaxIds, "GET /cocktails", NoId, qs, None, 0,
                    CocktailsIndex(qs, 0, Store))

NextScenario ==
  \/ ScenarioPostIngredients
  \/ ScenarioPostCocktails
  \/ ScenarioPostCocktailIngredients
  \/ ScenarioGetCocktails
  \/ Reply

SpecScenario == Init /\ [][NextScenario]_vars

(***************************************************************************)
(* Requests in flight together. A handler runs from one await to the next   *)
(* without interruption; the store executes one call at a time; between two *)
(* awaits of one handler the calls of the others may run. pc names the call *)
(* a handler is waiting for. No store call fails.                           *)
(***************************************************************************)
Slot(op, id, body, pc, status) ==
  [op |-> op, id |-> id, body |-> body, pc |-> pc, status |-> status]

Running(p) == inflight[p].pc \notin {"free", "done"}

ConcPathIds == IdPool \cup {NonHexId}
ConcIngredientBodies == {b \in ScenarioIngredientBodies : b.name = Str("Tequila")}
ConcRowBodies == [cocktailId : IdPool, ingredientId : IdPool, quantity : {Str("1 oz")}]

\* the handler starts: it answers 400 at once, or issues its first store call
Begin(p, op, id, body, rejected, firstCall) ==
  /\ inflight' = [inflight EXCEPT ![p] = IF rejected THEN Slot(op, id, body, "done", 400)
                                          ELSE Slot(op, id, body, firstCall, 0)]
  /\ UNCHANGED <<cocktails, ingredients, cocktailIngredients, nextId,
                 request, response, calls, before, cascadeFailed>>

\* the awaited call returns: the store is as the call left it, and the handler
\* goes on to its next await (pc) or to its response (status)
Resume(p, st, pc, status) ==
  /\ st.nextId <= MaxIds + 1
  /\ cocktails' = st.cocktails
  /\ ingredients' = st.ingredients
  /\ cocktailIngredients' = st.cocktailIngredients
  /\ nextId' = st.nextId
  /\ inflight' = [inflight EXCEPT ![p].pc = pc, ![p].status = status]
  /\ UNCHANGED <<request, response, calls, before, cascadeFailed>>

BeginPostCocktails ==
  \E p \in Slots :
    /\ ~Running(p)
    /\ Begin(p, "POST /cocktails", NoId, ScenarioCocktailBody,
             MissingCocktailFields(Only(ScenarioCocktailBody, CocktailFields)), "Cocktail.create")

AwaitCocktailCreate ==
  \E p \in Slots :
    /\ inflight[p].pc = "Cocktail.create"
    /\ \E out \in {CocktailsStore(inflight[p].body, 0, Store)} :
         Resume(p, out.store, "done", out.status)

BeginPostIngredients ==
  \E p \in Slots, body \in ConcIngredientBodies :
    /\ ~Running(p)
    /\ Begin(p, "POST /ingredients", NoId, body,
             MissingIngredientFields(Only(body, IngredientFields)), "Ingredient.create")

AwaitIngredientCreate ==
  \E p \in Slots :
    /\ inflight[p].pc = "Ingredient.create"
    /\ \E out \in {IngredientsStore(inflight[p].body, 0, Store)} :
         Resume(p, out.store, "done", out.status)

BeginPostCocktailIngredients ==
  \E p \in Slots, body \in ConcRowBodies :
    /\ ~Running(p)
    /\ Begin(p, "POST /cocktail-ingredients", NoId, body,
             \/ body.cocktailId = NoId \/ body.ingredientId = NoId \/ ~Truthy(body.quantity)
             \/ ~isValid(body.cocktailId) \/ ~isValid(body.ingredientId),
             "Cocktail.findById")

AwaitCocktailFindById ==
  \E p \in Slots :
    /\ inflight[p].pc = "Cocktail.findById"
    /\ IF Exists(cocktails, inflight[p].body.cocktailId)
       THEN Resume(p, Store, "Ingredient.findById", 0)
       ELSE Resume(p, Store, "done", 404)

AwaitIngredientFindById ==
  \E p \in Slots :
    /\ inflight[p].pc = "Ingredient.findById"
    /\ IF Exists(ingredients, inflight[p].body.ingredientId)
       THEN Resume(p, Store, "CocktailIngredient.create", 0)
       ELSE Resume(p, Store, "done", 404)

AwaitCocktailIngredientCreate ==
  \E p \in Slots :
    /\ inflight[p].pc = "CocktailIngredient.create"
    /\ Resume(p, [Store EXCEPT
                    !.cocktailIngredients = Append(@, NewCocktailIngredient(inflight[p].body, Store)),
                    !.nextId = @ + 1],
              "done", 201)

BeginDeleteCocktail ==
  \E p \in Slots, id \in ConcPathIds :
    /\ ~Running(p)
    /\ Begin(p, "DELETE /cocktails/:id", id, None, ~isValid(id), "Cocktail.findByIdAndDelete")

AwaitCocktailFindByIdAndDelete ==
  \E p \in Slots :
    /\ inflight[p].pc = "Cocktail.findByIdAndDelete"
    /\ IF Exists(cocktails, inflight[p].id)
       THEN Resume(p, [Store EXCEPT !.cocktails = DeleteById(@, inflight[p].id)],
                   "CocktailIngredient.deleteMany", 0)
       ELSE Resume(p, Store, "done", 404)

BeginDeleteIngredient ==
  \E p \in Slots, id \in ConcPathIds :
    /\ ~Running(p)
    /\ Begin(p, "DELETE /ingredients/:id", id, None, ~isValid(id), "Ingredient.findByIdAndDelete")

AwaitIngredientFindByIdAndDelete ==
  \E p \in Slots :
    /\ inflight[p].pc = "Ingredient.findByIdAndDelete"
    /\ IF Exists(ingredients, inflight[p].id)
       THEN Resume(p, [Store EXCEPT !.ingredients = DeleteById(@, inflight[p].id)],
                   "CocktailIngredient.deleteMany", 0)
       ELSE Resume(p, Store, "done", 404)

\* CocktailIngredient.deleteMany of either destroy()
AwaitDeleteMany ==
  \E p \in Slots :
    /\ inflight[p].pc = "CocktailIngredient.deleteMany"
    /\ Resume(p, [Store EXCEPT !.cocktailIngredients =
                    IF inflight[p].op = "DELETE /cocktails/:id"
                    THEN DeleteManyByCocktail(@, inflight[p].id)
                    ELSE DeleteManyByIngredient(@, inflight[p].id)],
              "done", 200)

NextConc ==
  \/ BeginPostCocktails
  \/ AwaitCocktailCreate
  \/ BeginPostIngredients
  \/ AwaitIngredientCreate
  \/ BeginPostCocktailIngredients
  \/ AwaitCocktailFindById
  \/ AwaitIngredientFindById
  \/ AwaitCocktailIngredientCreate
  \/ BeginDeleteCocktail
  \/ AwaitCocktailFindByIdAndDelete
  \/ BeginDeleteIngredient
  \/ AwaitIngredientFindByIdAndDelete
  \/ AwaitDeleteMany

SpecConc == Init /\ [][NextConc]_vars

(***************************************************************************)
(* Deletes whose cascade may fail, one request at a time. cascadeFailed     *)
(* records the ids of the entities that a destroy() deleted before its      *)
(* deleteMany threw; the rows that named them are still in the store.       *)
(***************************************************************************)
\* destroy() of a cocktail or an ingredient reached its deleteMany, which threw
CascadeFailure(op, failAt, out) ==
  /\ op \in {"DELETE /cocktails/:id", "DELETE /ingredients/:id"}
  /\ failAt = 2
  /\ Len(out.calls) = 2

\* one request dispatched to its handler, and the failure of a cascade recorded
HandleRecording(op, id, body, failAt, outcome) ==
  \E out \in {outcome} :
  /\ out.store.nextId <= MaxIds + 1
  /\ request' = [op |-> op, id |-> id, qs |-> None, body |-> body,
                 failAt |-> IF failAt <= Len(out.calls) THEN failAt ELSE 0]
  /\ response' = [status |-> out.status, body |-> out.body]
  /\ calls' = out.calls
  /\ before' = Store
  /\ cocktails' = out.store.cocktails
  /\ ingredients' = out.store.ingredients
  /\ cocktailIngredients' = out.store.cocktailIngredients
  /\ nextId' = out.store.nextId
  /\ cascadeFailed' = IF CascadeFailure(op, failAt, out) THEN cascadeFailed \cup {id}
                      ELSE cascadeFailed
  /\ UNCHANGED inflight

CascadeIngredientBody ==
  [name |-> Str("Tequila"), isAlcoholic |-> Bool(TRUE),
   description |-> Str("An ingredient"), image |-> Str("image.jpg")]

CascadeUpdateBodies ==
  [cocktailId : {NoId} \cup IdPool, ingredientId : {NoId} \cup IdPool, quantity : {Undefined}]

CascadePostCocktails ==
  /\ request = Idle
  /\ HandleRecording("POST /cocktails", NoId, ScenarioCocktailBody, 0,
                     CocktailsStore(ScenarioCocktailBody, 0, Store))

CascadePostIngredients ==
  /\ request = Idle
  /\ HandleRecording("POST /ingredients", NoId, CascadeIngredientBody, 0,
                     IngredientsStore(CascadeIngredientBody, 0, Store))

CascadePostCocktailIngredients ==
  /\ request = Idle
  /\ \E body \in ConcRowBodies :
       HandleRecording("POST /cocktail-ingredients", NoId, body, 0,
                       CocktailIngredientsStore(body, 0, Store))

CascadePutCocktailIngredient ==
  /\ request = Idle
  /\ \E id \in IdPool, body \in CascadeUpdateBodies :
       HandleRecording("PUT /cocktail-ingredients/:id", id, body, 0,
                       CocktailIngredientsUpdate(id, body, 0, Store))

CascadeDeleteCocktail ==
  /\ request = Idle
  /\ \E id \in IdPool, failAt \in FailPoints(2) :
       HandleRecording("DELETE /cocktails/:id", id, None, failAt,
                       CocktailsDestroy(id, failAt, Store))

CascadeDeleteIngredient ==
  /\ request = Idle
  /\ \E id \in IdPool, failAt \in FailPoints(2) :
       HandleRecording("DELETE /ingredients/:id", id, None, failAt,
                       IngredientsDestroy(id, failAt, Store))

CascadeDeleteCocktailIngredient ==
  /\ request = Idle
  /\ \E id \in IdPool, failAt \in FailPoints(1) :
       HandleRecording("DELETE /cocktail-ingredients/:id", id, None, failAt,
                       CocktailIngredientsDestroy(id, failAt, Store))

NextCascade ==
  \/ CascadePostCocktails
  \/ CascadePostIngredients
  \/ CascadePostCocktailIngredients
  \/ CascadePutCocktailIngredient
  \/ CascadeDeleteCocktail
  \/ CascadeDeleteIngredient
  \/ CascadeDeleteCocktailIngredient
  \/ Reply

SpecCascade == Init /\ [][NextCascade]_vars

(***************************************************************************)
(* Properties                                                              *)
(***************************************************************************)
Rows == Range(cocktailIngredients)
RowsBefore == Range(before.cocktailIngredients)

\* C1: a DELETE /cocktails/:id that answers 200 leaves the cocktail absent and
\* no CocktailIngredient row with that cocktailId, however many rows referenced
\* it before; a DELETE /ingredients/:id that answers 200 leaves the ingredient
\* absent and no row with that ingredientId.
C1_DeleteCascades ==
  /\ (request.op = "DELETE /cocktails/:id" /\ response.status = 200) =>
       /\ request.id \in Ids(before.cocktails)
       /\ request.id \notin Ids(cocktails)
       /\ \A r \in Rows : r.cocktailId # request.id
  /\ (request.op = "DELETE /ingredients/:id" /\ response.status = 200) =>
       /\ request.id \in Ids(before.ingredients)
       /\ request.id \notin Ids(ingredients)
       /\ \A r \in Rows : r.ingredientId # request.id

\* a cocktail that rows referenced has been deleted
C1_Witness ==
  /\ request.op = "DELETE /cocktails/:id"
  /\ response.status = 200
  /\ \E r \in RowsBefore : r.cocktailId = request.id

\* C2: POST /cocktail-ingredients with well-formed identifiers and a quantity
\* answers 404 and inserts nothing when the cocktail or the ingredient does
\* not exist; a row is inserted only after both existence checks succeeded.
C2_CreateChecksReferences ==
  request.op = "POST /cocktail-ingredients" =>
    /\ ( /\ isValid(request.body.cocktailId)
         /\ isValid(request.body.ingredientId)
         /\ Truthy(request.body.quantity)
         /\ \/ request.body.cocktailId \notin Ids(before.cocktails)
            \/ request.body.ingredientId \notin Ids(before.ingredients) ) =>
           /\ cocktailIngredients = before.cocktailIngredients
           /\ request.failAt = 0 => response.status = 404
    /\ cocktailIngredients # before.cocktailIngredients =>
           /\ request.body.cocktailId \in Ids(before.cocktails)
           /\ request.body.ingredientId \in Ids(before.ingredients)
           /\ calls = <<"Cocktail.findById", "Ingredient.findById", "CocktailIngredient.create">>
           /\ response.status = 201

\* the cocktail exists, the ingredient does not, and the request was refused
C2_Witness ==
  /\ request.op = "POST /cocktail-ingredients"
  /\ Truthy(request.body.quantity)
  /\ request.body.cocktailId \in Ids(before.cocktails)
  /\ isValid(request.body.ingredientId)
  /\ request.body.ingredientId \notin Ids(before.ingredients)
  /\ response.status = 404

IdScopedOps ==
  {"GET /cocktails/:id", "PUT /cocktails/:id", "DELETE /cocktails/:id",
   "GET /ingredients/:id", "PUT /ingredients/:id", "DELETE /ingredients/:id",
   "GET /cocktail-ingredients/:id", "PUT /cocktail-ingredients/:id",
   "DELETE /cocktail-ingredients/:id"}

\* C3: with a malformed path identifier every id-scoped operation of the three
\* resources answers 400 and makes no model call, neither a read nor a write.
C3_MalformedPathId ==
  (request.op \in IdScopedOps /\ request.id \in {ShortId, NonHexId}) =>
    /\ response.status = 400
    /\ calls = <<>>
    /\ Store = before

\* a delete with a 24-character identifier that is not hexadecimal
C3_Witness ==
  /\ request.op = "DELETE /cocktail-ingredients/:id"
  /\ request.id = NonHexId
  /\ response.status = 400

\* an identifier that is supplied and does not have the store's format
Malformed(id) == id # NoId /\ ~isValid(id)

\* the identifiers a request carries outside its path
SuppliedIds ==
  CASE request.op = "GET /cocktails" -> {request.qs.ingredient}
    [] request.op = "GET /cocktail-ingredients" ->
         {request.qs.cocktailId, request.qs.ingredientId}
    [] request.op \in {"POST /cocktail-ingredients", "PUT /cocktail-ingredients/:id"} ->
         {request.body.cocktailId, request.body.ingredientId}
    [] OTHER -> {}

\* C4: a malformed identifier in the query string of GET /cocktails or
\* GET /cocktail-ingredients, or in the body of POST /cocktail-ingredients or
\* PUT /cocktail-ingredients/:id, is answered 400 before any model call is made.
C4_SuppliedIdsChecked ==
  (\E id \in SuppliedIds : Malformed(id)) =>
    /\ response.status = 400
    /\ calls = <<>>

\* the existing cocktails with a row whose ingredient exists and is alcoholic
AlcoholicCocktails ==
  {c \in Range(cocktails) :
     \E r \in Rows : /\ r.cocktailId = c._id
                     /\ \E i \in Range(ingredients) : i._id = r.ingredientId /\ i.isAlcoholic}

SortEnum == {"name", "category", "date"}

\* C5: with no other filter, GET /cocktails?isAlcoholic=true returns exactly
\* the existing cocktails with at least one row whose ingredient is alcoholic,
\* isAlcoholic=false returns exactly the other existing cocktails, and an
\* empty set is answered 404.
C5_AlcoholicFilterExact ==
  ( /\ request.op = "GET /cocktails"
    /\ request.qs.ingredient = NoId
    /\ request.qs.isAlcoholic \in {"true", "false"}
    /\ request.qs.sort \in SortEnum \cup {""}
    /\ request.failAt = 0 ) =>
      LET expected == IF request.qs.isAlcoholic = "true" THEN AlcoholicCocktails
                      ELSE Range(cocktails) \ AlcoholicCocktails
      IN IF expected = {}
         THEN response.status = 404
         ELSE /\ response.status = 200
              /\ Range(response.body) = expected
              /\ Len(response.body) = Cardinality(expected)

\* isAlcoholic=false returned a cocktail that has a row, of an ingredient without alcohol
C5_Witness ==
  /\ request.op = "GET /cocktails"
  /\ request.qs.ingredient = NoId
  /\ request.qs.isAlcoholic = "false"
  /\ response.status = 200
  /\ \E c \in Range(response.body) : \E r \in Rows : r.cocktailId = c._id

\* C6: when GET /cocktails is called with a well-formed ingredient identifier
\* and answers 200, every cocktail returned has a row linking it to that
\* ingredient, whatever isAlcoholic and sort are.
C6_IngredientFilterHolds ==
  ( /\ request.op = "GET /cocktails"
    /\ request.qs.ingredient # NoId
    /\ isValid(request.qs.ingredient)
    /\ response.status = 200 ) =>
      \A c \in Range(response.body) :
        \E r \in Rows : r.cocktailId = c._id /\ r.ingredientId = request.qs.ingredient

\* C7: GET /cocktails answers 400 for every non-empty sort that is not name,
\* category or date, names of inherited object properties included; for the
\* three enum values it answers 400 only on account of the ingredient filter.
C7_SortValidated ==
  (request.op = "GET /cocktails" /\ request.failAt = 0) =>
    /\ (request.qs.sort # "" /\ request.qs.sort \notin SortEnum) => response.status = 400
    /\ (request.qs.sort \in SortEnum /\ response.status = 400) =>
         Malformed(request.qs.ingredient)

\* the filter GET /cocktails applies: isAlcoholic when given, else ingredient, else none
CocktailsSelected ==
  IF request.qs.isAlcoholic = "true" THEN AlcoholicCocktails
  ELSE IF request.qs.isAlcoholic # "" THEN Range(cocktails) \ AlcoholicCocktails
  ELSE IF request.qs.ingredient # NoId
       THEN {c \in Range(cocktails) :
               \E r \in Rows : r.cocktailId = c._id /\ r.ingredientId = request.qs.ingredient}
  ELSE Range(cocktails)

\* the filter GET /cocktail-ingredients applies: ingredientId when given, else cocktailId
RowsSelected ==
  IF request.qs.ingredientId # NoId
  THEN {r \in Rows : r.ingredientId = request.qs.ingredientId}
  ELSE IF request.qs.cocktailId # NoId
  THEN {r \in Rows : r.cocktailId = request.qs.cocktailId}
  ELSE Rows

C9_IngredientsListLikeCocktails ==
  (request.op = "GET /ingredients" /\ request.failAt = 0) =>
    /\ ingredients = <<>> => response.status = 404
    /\ response.status = 200 => ingredients # <<>>

\* C9 amended: GET /ingredients answers 200 with the array of all ingredients,
\* the empty array included, and never 404; only a store failure changes the
\* answer, to 500.
C9_IngredientsListAlways200 ==
  request.op = "GET /ingredients" =>
    /\ response.status \in {200, 500}
    /\ request.failAt = 0 => (response.status = 200 /\ response.body = ingredients)
    /\ Store = before

\* the collection is empty and the answer is 200 with the empty array
C9_Witness ==
  /\ request.op = "GET /ingredients"
  /\ ingredients = <<>>
  /\ response.status = 200
  /\ response.body = <<>>

\* C10: whichever model call of whichever handler fails, the request ends
\* with a response of status 500 and the exception does not leave the handler;
\* every request ends in one of 200, 201, 400, 404, 500.
C10_FailureIs500 ==
  request # Idle =>
    /\ response.status \in {200, 201, 400, 404, 500}
    /\ request.failAt > 0 =>
         /\ response.status = 500
         /\ Len(calls) = request.failAt

\* the cascade delete of DELETE /ingredients/:id failed
C10_Witness ==
  /\ request.op = "DELETE /ingredients/:id"
  /\ request.failAt = 2
  /\ response.status = 500

\* C11: every 500 answered because a model call failed carries the failure's
\* message in the error field of its body, besides the fixed message.
C11_ErrorMessageSurfaced ==
  (request # Idle /\ request.failAt > 0 /\ response.status = 500) =>
    /\ "message" \in DOMAIN response.body
    /\ "error" \in DOMAIN response.body
    /\ response.body.error = StoreFailure

DeleteCalls(model) == <<model \o ".findByIdAndDelete", "CocktailIngredient.deleteMany">>

\* C12: in DELETE /cocktails/:id and DELETE /ingredients/:id the primary delete
\* is made before the cascade delete, and when the cascade delete fails the
\* answer is 500, the entity stays deleted and the rows that referenced it are
\* all still there.
C12_CascadeFailureKeepsPrimaryDelete ==
  /\ request.op = "DELETE /cocktails/:id" =>
       /\ "CocktailIngredient.deleteMany" \in Range(calls) => calls = DeleteCalls("Cocktail")
       /\ request.failAt = 2 =>
            /\ response.status = 500
            /\ request.id \in Ids(before.cocktails)
            /\ cocktails = DeleteById(before.cocktails, request.id)
            /\ cocktailIngredients = before.cocktailIngredients
  /\ request.op = "DELETE /ingredients/:id" =>
       /\ "CocktailIngredient.deleteMany" \in Range(calls) => calls = DeleteCalls("Ingredient")
       /\ request.failAt = 2 =>
            /\ response.status = 500
            /\ request.id \in Ids(before.ingredients)
            /\ ingredients = DeleteById(before.ingredients, request.id)
            /\ cocktailIngredients = before.cocktailIngredients

\* the cascade delete failed and a row still names the deleted cocktail
C12_Witness ==
  /\ request.op = "DELETE /cocktails/:id"
  /\ request.failAt = 2
  /\ response.status = 500
  /\ request.id \notin Ids(cocktails)
  /\ \E r \in Rows : r.cocktailId = request.id

\* a field that is absent or falsy
Falsy(x) == x.t = "undefined" \/ (x.t = "string" /\ x.v = "") \/ (x.t = "boolean" /\ x.v = "false")

\* coll is before with the one document d appended
Appended(coll, old, d) == Len(coll) = Len(old) + 1 /\ SubSeq(coll, 1, Len(old)) = old /\ coll[Len(coll)] = d

\* C13: POST /cocktails answers 400 and leaves the cocktails unchanged exactly
\* when name, category or instructions is absent or falsy; otherwise, with no
\* store failure, it answers 201 and adds exactly one cocktail that has the
\* submitted name, category and instructions and no other submitted field.
C13_CocktailCreate ==
  request.op = "POST /cocktails" =>
    LET b == request.body
        missing == Falsy(b.name) \/ Falsy(b.category) \/ Falsy(b.instructions)
    IN /\ response.status = 400 <=> missing
       /\ response.status = 400 => Store = before
       /\ (~missing /\ request.failAt = 0) =>
            /\ response.status = 201
            /\ Appended(cocktails, before.cocktails, response.body)
            /\ response.body.name = b.name.v
            /\ response.body.category = b.category.v
            /\ response.body.instructions = b.instructions.v
            /\ DOMAIN response.body = {"_id", "name", "category", "instructions", "createdAt"}
            /\ response.body._id \notin Ids(before.cocktails)
            /\ ingredients = before.ingredients
            /\ cocktailIngredients = before.cocktailIngredients

\* a cocktail was created from a body that carried a field outside the three
C13_Witness ==
  /\ request.op = "POST /cocktails"
  /\ request.body.garnish # Undefined
  /\ response.status = 201
  /\ Len(cocktails) = Len(before.cocktails) + 1

\* C14: POST /ingredients answers 201 and adds one ingredient exactly when
\* name, description and image are truthy and isAlcoholic is a boolean (false
\* included); a non-boolean isAlcoholic, or an absent description or image, is
\* answered 400; every rejected request leaves the ingredients unchanged.
C14_IngredientCreate ==
  request.op = "POST /ingredients" =>
    LET b == request.body
        accepted == /\ ~Falsy(b.name) /\ ~Falsy(b.description) /\ ~Falsy(b.image)
                    /\ b.isAlcoholic.t = "boolean"
    IN /\ response.status = 400 <=> ~accepted
       /\ response.status # 201 => Store = before
       /\ (accepted /\ request.failAt = 0) =>
            /\ response.status = 201
            /\ Appended(ingredients, before.ingredients, response.body)
            /\ response.body.name = b.name.v
            /\ response.body.isAlcoholic = (b.isAlcoholic.v = "true")

\* an ingredient with isAlcoholic = false was accepted
C14_Witness ==
  /\ request.op = "POST /ingredients"
  /\ request.body.isAlcoholic = Bool(FALSE)
  /\ response.status = 201
  /\ Len(ingredients) = Len(before.ingredients) + 1
  /\ ~ingredients[Len(ingredients)].isAlcoholic

\* C15: GET /cocktail-ingredients with a well-formed cocktailId and a
\* well-formed ingredientId applies the ingredientId filter alone: it answers
\* what the same request without cocktailId answers, all rows with that
\* ingredientId whatever their cocktailId, and not the rows matching both.
C15_LastFilterWins ==
  ( /\ request.op = "GET /cocktail-ingredients"
    /\ isValid(request.qs.cocktailId)
    /\ isValid(request.qs.ingredientId)
    /\ request.failAt = 0 ) =>
      LET ofIngredient == {r \in Rows : r.ingredientId = request.qs.ingredientId}
          alone == CocktailIngredientsIndex(
                     [cocktailId |-> NoId, ingredientId |-> request.qs.ingredientId], 0, Store)
      IN /\ response.status = IF ofIngredient = {} THEN 404 ELSE 200
         /\ response.status = alone.status
         /\ response.body = alone.body
         /\ response.status = 200 =>
              /\ {r._id : r \in Range(response.body)} = {r._id : r \in ofIngredient}
              /\ Len(response.body) = Cardinality(ofIngredient)

\* a row was returned whose cocktailId is not the one the request asked for
C15_Witness ==
  /\ request.op = "GET /cocktail-ingredients"
  /\ isValid(request.qs.cocktailId)
  /\ isValid(request.qs.ingredientId)
  /\ response.status = 200
  /\ \E r \in Rows : /\ r._id \in {b._id : b \in Range(response.body)}
                     /\ r.cocktailId # request.qs.cocktailId

C20_DeleteFrame ==
  response.status = 200 =>
    /\ request.op = "DELETE /cocktails/:id" =>
         /\ request.id \in Ids(before.cocktails)
         /\ cocktails = SelectSeq(before.cocktails, LAMBDA c : c._id # request.id)
         /\ cocktailIngredients =
              SelectSeq(before.cocktailIngredients, LAMBDA r : r.cocktailId # request.id)
         /\ ingredients = before.ingredients
    /\ request.op = "DELETE /ingredients/:id" =>
         /\ request.id \in Ids(before.ingredients)
         /\ ingredients = SelectSeq(before.ingredients, LAMBDA g : g._id # request.id)
         /\ cocktailIngredients =
              SelectSeq(before.cocktailIngredients, LAMBDA r : r.ingredientId # request.id)
         /\ cocktails = before.cocktails
    /\ request.op = "DELETE /cocktail-ingredients/:id" =>
         /\ request.id \in Ids(before.cocktailIngredients)
         /\ cocktailIngredients =
              SelectSeq(before.cocktailIngredients, LAMBDA r : r._id # request.id)
         /\ cocktails = before.cocktails
         /\ ingredients = before.ingredients

\* an ingredient was deleted while a row that references something else, and a
\* cocktail, were in the store and stayed
C20_Witness ==
  /\ request.op = "DELETE /ingredients/:id"
  /\ response.status = 200
  /\ cocktails # <<>>
  /\ \E r \in Range(cocktailIngredients) : r.ingredientId # request.id

\* C19: when requests run one at a time and no store call fails, every
\* CocktailIngredient row's cocktailId is the id of a cocktail in the store and
\* its ingredientId the id of an ingredient in the store.
C19_ReferentialIntegrity ==
  \A r \in Range(cocktailIngredients) :
    /\ r.cocktailId \in Ids(cocktails)
    /\ r.ingredientId \in Ids(ingredients)

\* the scenario's steps other than the creation of the ingredients: the
\* Margarita is created, a row naming a cocktail and an ingredient of the store
\* is created, GET /cocktails?isAlcoholic=true returns every cocktail linked to
\* an ingredient with alcohol, and GET /cocktails?ingredient=<id> returns every
\* cocktail linked to that ingredient
ScenarioLinksAndLists ==
  /\ request.op = "POST /cocktails" =>
       /\ response.status = 201
       /\ cocktails = Append(before.cocktails, response.body)
       /\ response.body.name = "Margarita"
  /\ ( /\ request.op = "POST /cocktail-ingredients"
       /\ request.body.cocktailId \in Ids(before.cocktails)
       /\ request.body.ingredientId \in Ids(before.ingredients) ) =>
         /\ response.status = 201
         /\ cocktailIngredients = Append(before.cocktailIngredients, response.body)
         /\ response.body.cocktailId = request.body.cocktailId
         /\ response.body.ingredientId = request.body.ingredientId
         /\ response.body.quantity = request.body.quantity.v
  /\ (request.op = "GET /cocktails" /\ request.qs.isAlcoholic = "true") =>
       \A c \in AlcoholicCocktails :
         response.status = 200 /\ c \in Range(response.body)
  /\ (request.op = "GET /cocktails" /\ request.qs.ingredient # NoId) =>
       \A c \in Range(cocktails) :
         (\E r \in Rows : r.cocktailId = c._id /\ r.ingredientId = request.qs.ingredient) =>
           response.status = 200 /\ c \in Range(response.body)

\* a POST /ingredients whose body has exactly name and isAlcoholic
NameAndIsAlcoholicOnly ==
  /\ request.op = "POST /ingredients"
  /\ request.body.name # Undefined
  /\ request.body.isAlcoholic # Undefined
  /\ request.body.description = Undefined
  /\ request.body.image = Undefined

\* C17 as stated: the scenario runs as written, the two ingredients being
\* created through POST /ingredients with exactly name and isAlcoholic (201),
\* and the other steps succeed and the two lists return the Margarita.
C17_ScenarioAsWritten ==
  /\ NameAndIsAlcoholicOnly =>
       /\ response.status = 201
       /\ ingredients = Append(before.ingredients, response.body)
  /\ ScenarioLinksAndLists

\* C17: POST /ingredients with exactly name and isAlcoholic answers 400 and
\* creates nothing; with description and image supplied as well it answers 201
\* and stores the ingredient, and then the rest of the scenario runs as
\* written: the Margarita and the two rows are created, and
\* GET /cocktails?isAlcoholic=true and GET /cocktails?ingredient=<limeId> both
\* return the Margarita.
C17_ScenarioWithAllFields ==
  /\ NameAndIsAlcoholicOnly => response.status = 400 /\ Store = before
  /\ ( /\ request.op = "POST /ingredients"
       /\ request.body.description # Undefined
       /\ request.body.image # Undefined ) =>
         /\ response.status = 201
         /\ ingredients = Append(before.ingredients, response.body)
         /\ response.body.name = request.body.name.v
         /\ response.body.isAlcoholic = (request.body.isAlcoholic = Bool(TRUE))
  /\ ScenarioLinksAndLists

\* the whole scenario has run: the Margarita has a "1 oz" row to Lime (without
\* alcohol) and a "2 oz" row to Tequila (with alcohol), and
\* GET /cocktails?ingredient=<limeId> answered 200 with the Margarita
C17_Witness ==
  /\ request.op = "GET /cocktails"
  /\ response.status = 200
  /\ \E c \in Range(response.body), lime, tequila \in Range(ingredients) :
       /\ c.name = "Margarita"
       /\ lime.name = "Lime" /\ ~lime.isAlcoholic
       /\ tequila.name = "Tequila" /\ tequila.isAlcoholic
       /\ request.qs.ingredient = lime._id
       /\ \E r1, r2 \in Rows :
            /\ r1.cocktailId = c._id /\ r1.ingredientId = lime._id /\ r1.quantity = "1 oz"
            /\ r2.cocktailId = c._id /\ r2.ingredientId = tequila._id /\ r2.quantity = "2 oz"

\* C18: with requests in flight together and no store failure, once no request
\* is in flight any more, no row references a cocktail that a
\* DELETE /cocktails/:id answered 200 for, nor an ingredient that a
\* DELETE /ingredients/:id answered 200 for.
C18_NoRowOutlivesDelete ==
  (\A p \in Slots : ~Running(p)) =>
    \A p \in Slots :
      (inflight[p].pc = "done" /\ inflight[p].status = 200) =>
        /\ inflight[p].op = "DELETE /cocktails/:id" =>
             \A r \in Rows : r.cocktailId # inflight[p].id
        /\ inflight[p].op = "DELETE /ingredients/:id" =>
             \A r \in Rows : r.ingredientId # inflight[p].id

ReadOps ==
  {"GET /cocktails", "GET /cocktails/:id", "GET /ingredients", "GET /ingredients/:id",
   "GET /cocktail-ingredients", "GET /cocktail-ingredients/:id"}

UpdateOps == {"PUT /cocktails/:id", "PUT /ingredients/:id", "PUT /cocktail-ingredients/:id"}

DeleteOps ==
  {"DELETE /cocktails/:id", "DELETE /ingredients/:id", "DELETE /cocktail-ingredients/:id"}

\* C21: a list or get-by-id request, whatever it answers, and an update or
\* delete request that answers 400 or 404, leave the three collections exactly
\* as they were when the request arrived; a delete that answers 400 or 404
\* makes no deleteMany call.
C21_NoEffectWithoutSuccess ==
  /\ ( \/ request.op \in ReadOps
       \/ request.op \in UpdateOps \cup DeleteOps /\ response.status \in {400, 404} ) =>
         /\ cocktails = before.cocktails
         /\ ingredients = before.ingredients
         /\ cocktailIngredients = before.cocktailIngredients
  /\ (request.op \in DeleteOps /\ response.status \in {400, 404}) =>
       "CocktailIngredient.deleteMany" \notin Range(calls)

\* DELETE /cocktails/:id answered 404 for an id that rows still name as their
\* cocktail: these rows are all still there
C21_Witness ==
  /\ request.op = "DELETE /cocktails/:id"
  /\ response.status = 404
  /\ \E r \in RowsBefore : r.cocktailId = request.id
  /\ \E r \in Rows : r.cocktailId = request.id

\* the request repeats the DELETE of an entity that an earlier DELETE removed
\* before its cascade failed
RepeatedDelete ==
  /\ request.op \in {"DELETE /cocktails/:id", "DELETE /ingredients/:id"}
  /\ request.id \in cascadeFailed
  /\ request.id \notin Ids(before.cocktails) \cup Ids(before.ingredients)

\* the rows, as they were when the request arrived, that name a deleted entity
OrphanedBefore ==
  {r \in RowsBefore : r.cocktailId \in cascadeFailed \/ r.ingredientId \in cascadeFailed}

\* the repeated DELETE answers 404 when its store call succeeds (500 when it
\* fails) and changes nothing in the store
RepeatChangesNothing ==
  RepeatedDelete =>
    /\ response.status = IF request.failAt = 0 THEN 404 ELSE 500
    /\ Store = before
    /\ "CocktailIngredient.deleteMany" \notin Range(calls)

\* C22 as stated: after a DELETE whose primary delete succeeded and whose
\* cascade failed, repeating the DELETE answers 404 and removes no row, and a
\* row that references the deleted entity leaves the store only through
\* DELETE /cocktail-ingredients/:id with its own id.
C22_OrphansLeaveOnlyByOwnDelete ==
  /\ RepeatChangesNothing
  /\ \A r \in OrphanedBefore :
       \/ r._id \in Ids(cocktailIngredients)
       \/ request.op = "DELETE /cocktail-ingredients/:id" /\ request.id = r._id

\* C22: after a DELETE whose primary delete succeeded and whose cascade
\* failed, repeating the DELETE answers 404 (500 if its store call fails) and
\* removes no row; a row that references the deleted entity leaves the store
\* only through DELETE /cocktail-ingredients/:id with its own id, or through
\* the cascade of a DELETE, answered 200, of the other entity it references.
C22_OrphansLeaveByOwnDeleteOrOtherCascade ==
  /\ RepeatChangesNothing
  /\ \A r \in OrphanedBefore :
       \/ r._id \in Ids(cocktailIngredients)
       \/ request.op = "DELETE /cocktail-ingredients/:id" /\ request.id = r._id
       \/ /\ request.op = "DELETE /ingredients/:id"
          /\ request.id = r.ingredientId
          /\ response.status = 200
       \/ /\ request.op = "DELETE /cocktails/:id"
          /\ request.id = r.cocktailId
          /\ response.status = 200

\* the DELETE of a cocktail whose cascade had failed was repeated: it answered
\* 404 and the row that names the cocktail is still in the store
C22_Witness ==
  /\ request.op = "DELETE /cocktails/:id"
  /\ request.id \in cascadeFailed
  /\ response.status = 404
  /\ \E r \in Rows : r.cocktailId = request.id /\ r \in RowsBefore

====
